---------------------------- MODULE Spec2Model ----------------------------
(***************************************************************************)
(* A model of the hand-written HTTP/1.1 client of the post "fetch from     *)
(* scratch" (final listing: parseContentLength, readResponse, fetch).      *)
(*                                                                         *)
(* Strings are sequences of characters and buffers are sequences of bytes, *)
(* so that the decoding of each chunk, the character loop of the 'data'    *)
(* listener, the regular expression of parseContentLength and the URL      *)
(* parser are computed element by element, as the code computes them.  An  *)
(* ASCII byte and its character are the same one-character string; a byte  *)
(* above 7F is written as two hexadecimal digits and a character above     *)
(* U+007F as "U+" and its code point.                                      *)
(***************************************************************************)
EXTENDS Integers, Sequences, FiniteSets, TLC

(***************************************************************************)
(* Characters                                                              *)
(***************************************************************************)
CR == "\r"
LF == "\n"

LowerChars ==
  <<"a", "b", "c", "d", "e", "f", "g", "h", "i", "j", "k", "l", "m",
    "n", "o", "p", "q", "r", "s", "t", "u", "v", "w", "x", "y", "z">>
UpperChars ==
  <<"A", "B", "C", "D", "E", "F", "G", "H", "I", "J", "K", "L", "M",
    "N", "O", "P", "Q", "R", "S", "T", "U", "V", "W", "X", "Y", "Z">>
DigitChars == <<"0", "1", "2", "3", "4", "5", "6", "7", "8", "9">>

Range(s) == {s[i] : i \in DOMAIN s}
Alpha == Range(LowerChars) \cup Range(UpperChars)
Digit == Range(DigitChars)

\* The ASCII lower-casing that the URL parser applies to scheme and host and
\* that the /i flag of the content-length pattern applies to both sides.
ToLower(c) ==
  IF c \in Range(UpperChars)
    THEN LowerChars[CHOOSE i \in DOMAIN UpperChars : UpperChars[i] = c]
    ELSE c

LowerStr(s) == [i \in DOMAIN s |-> ToLower(s[i])]

\* The value of one decimal digit character.
DigitValue(c) == (CHOOSE i \in DOMAIN DigitChars : DigitChars[i] = c) - 1

\* Number("<digits>") for a non-empty run of decimal digits.
RECURSIVE DigitsToNat(_)
DigitsToNat(ds) ==
  IF ds = <<>> THEN 0
  ELSE 10 * DigitsToNat(SubSeq(ds, 1, Len(ds) - 1)) + DigitValue(ds[Len(ds)])

\* The first index j >= i of s whose character is in set, Len(s) + 1 if none.
IndexOfFrom(s, set, i) ==
  LET hits == {j \in i..Len(s) : s[j] \in set}
  IN  IF hits = {} THEN Len(s) + 1
      ELSE CHOOSE j \in hits : \A k \in hits : j <= k

(***************************************************************************)
(* data.toString('utf8'): the UTF-8 decoding of one buffer                 *)
(***************************************************************************)
\* Bytes 80..BF, which only continue a sequence.
Continuation == {"A9", "9F", "98", "80"}

\* The length of the sequence a byte starts: C3 starts a two-byte sequence,
\* F0 a four-byte one, an ASCII byte is a sequence by itself.
SequenceLength(b) ==
  CASE b = "C3" -> 2
    [] b = "F0" -> 4
    [] OTHER -> 1

\* U+FFFD, which the decoder puts in place of bytes that are no sequence.
ReplacementChar == "U+FFFD"

\* The character of a complete sequence.
CodePoint(bs) ==
  CASE bs = <<"C3", "A9">> -> "U+00E9"
    [] bs = <<"F0", "9F", "98", "80">> -> "U+1F600"
    [] OTHER -> ReplacementChar

\* The number of UTF-16 code units of a character, which is what the length
\* of a string counts: two for a character above U+FFFF.
Utf16Length(c) == IF c = "U+1F600" THEN 2 ELSE 1

\* string.length
RECURSIVE StrLength(_)
StrLength(str) ==
  IF str = <<>> THEN 0 ELSE Utf16Length(Head(str)) + StrLength(Tail(str))

\* The characters of a buffer, each with the number of bytes it was decoded
\* from.  A sequence cut short by the end of the buffer or by a byte that
\* does not continue it, and a continuation byte that continues nothing,
\* each decode to one U+FFFD.
RECURSIVE DecodeUtf8(_)
DecodeUtf8(bytes) ==
  IF bytes = <<>> THEN <<>>
  ELSE LET b     == Head(bytes)
           n     == SequenceLength(b)
           conts == {m \in 0..(n - 1) :
                       /\ 1 + m <= Len(bytes)
                       /\ \A j \in 2..(1 + m) : bytes[j] \in Continuation}
           avail == CHOOSE m \in conts : \A k \in conts : k <= m
       IN  IF b \in Continuation
             THEN <<[c |-> ReplacementChar, n |-> 1]>> \o DecodeUtf8(Tail(bytes))
           ELSE IF n = 1
             THEN <<[c |-> b, n |-> 1]>> \o DecodeUtf8(Tail(bytes))
           ELSE IF avail = n - 1
             THEN <<[c |-> CodePoint(SubSeq(bytes, 1, n)), n |-> n]>>
                    \o DecodeUtf8(SubSeq(bytes, n + 1, Len(bytes)))
           ELSE <<[c |-> ReplacementChar, n |-> 1 + avail]>>
                  \o DecodeUtf8(SubSeq(bytes, 2 + avail, Len(bytes)))

\* buffer.toString('utf8')
ToStringUtf8(bytes) == [i \in DOMAIN DecodeUtf8(bytes) |-> DecodeUtf8(bytes)[i].c]

(***************************************************************************)
(* new URL(urlString): the WHATWG parser of node:url, for absolute URLs    *)
(* without userinfo, percent-escapes or dot segments.                      *)
(***************************************************************************)
SchemeChars == Alpha \cup Digit \cup {"+", "-", "."}

\* Length of the scheme: the characters before the first ":", when they
\* start with a letter and are all scheme characters; 0 when there is none.
SchemeLen(s) ==
  LET c == IndexOfFrom(s, {":"}, 1)
  IN  IF /\ c <= Len(s)
         /\ c > 1
         /\ s[1] \in Alpha
         /\ \A j \in 2..(c - 1) : s[j] \in SchemeChars
        THEN c - 1
        ELSE 0

\* The special schemes and their default ports.
SpecialSchemes ==
  { <<"h", "t", "t", "p">>, <<"h", "t", "t", "p", "s">>, <<"f", "t", "p">>,
    <<"w", "s">>, <<"w", "s", "s">> }

DefaultPort(scheme) ==
  CASE scheme = <<"h", "t", "t", "p">> -> <<"8", "0">>
    [] scheme = <<"w", "s">> -> <<"8", "0">>
    [] scheme = <<"h", "t", "t", "p", "s">> -> <<"4", "4", "3">>
    [] scheme = <<"w", "s", "s">> -> <<"4", "4", "3">>
    [] scheme = <<"f", "t", "p">> -> <<"2", "1">>
    [] OTHER -> <<>>

InvalidUrl == [ok |-> FALSE, protocol |-> <<>>, hostname |-> <<>>, port |-> <<>>,
               pathname |-> <<>>, search |-> <<>>, hash |-> <<>>]

\* Host, port, path, query and fragment of the part of s that starts at
\* index a with an authority.  special: the scheme is a special one (an empty
\* host is a failure, the host is lower-cased, an empty path is "/").
ParseAuthority(s, scheme, a, special) ==
  LET e      == IndexOfFrom(s, {"/", "\\", "?", "#"}, a)
      auth   == SubSeq(s, a, e - 1)
      colons == {j \in DOMAIN auth : auth[j] = ":"}
      c      == IF colons = {} THEN Len(auth) + 1
                ELSE CHOOSE j \in colons : \A k \in colons : k <= j
      host   == SubSeq(auth, 1, c - 1)
      prt    == SubSeq(auth, c + 1, Len(auth))
      q      == IndexOfFrom(s, {"?", "#"}, e)
      h      == IndexOfFrom(s, {"#"}, e)
      path   == SubSeq(s, e, q - 1)
  IN  IF \/ (special /\ host = <<>>)
         \/ \E j \in DOMAIN prt : prt[j] \notin Digit
         \/ (prt # <<>> /\ DigitsToNat(prt) > 65535)
        THEN InvalidUrl
        ELSE [ok       |-> TRUE,
              protocol |-> scheme,
              hostname |-> IF special THEN LowerStr(host) ELSE host,
              port     |-> IF prt = DefaultPort(scheme) THEN <<>> ELSE prt,
              pathname |-> IF special /\ path = <<>> THEN <<"/">> ELSE path,
              search   |-> IF h - q <= 1 THEN <<>> ELSE SubSeq(s, q, h - 1),
              hash     |-> IF Len(s) - h < 1 THEN <<>> ELSE SubSeq(s, h, Len(s))]

\* new URL(s) with no base: ok = FALSE stands for the TypeError
\* (ERR_INVALID_URL) the constructor throws.
ParseURL(s) ==
  LET n      == SchemeLen(s)
      scheme == LowerStr(SubSeq(s, 1, n))
      rest   == n + 2
      slash  == {"/", "\\"}
  IN  IF n = 0 THEN InvalidUrl
      ELSE IF scheme \in SpecialSchemes
        THEN LET nonSlash == {j \in rest..Len(s) : s[j] \notin slash}
                 a == IF nonSlash = {} THEN Len(s) + 1
                      ELSE CHOOSE j \in nonSlash : \A k \in nonSlash : j <= k
             IN  ParseAuthority(s, scheme, a, TRUE)
      ELSE IF rest + 1 <= Len(s) /\ s[rest] = "/" /\ s[rest + 1] = "/"
        THEN ParseAuthority(s, scheme, rest + 2, FALSE)
      ELSE LET q == IndexOfFrom(s, {"?", "#"}, rest)
               h == IndexOfFrom(s, {"#"}, rest)
           IN  [ok       |-> TRUE,
                protocol |-> scheme,
                hostname |-> <<>>,
                port     |-> <<>>,
                pathname |-> SubSeq(s, rest, q - 1),
                search   |-> IF h - q <= 1 THEN <<>> ELSE SubSeq(s, q, h - 1),
                hash     |-> IF Len(s) - h < 1 THEN <<>> ELSE SubSeq(s, h, Len(s))]


(***************************************************************************)
(* Inputs: the URL strings a caller passes to fetch and the byte streams a *)
(* server sends back.                                                      *)
(***************************************************************************)
UrlPlain ==
  <<"h", "t", "t", "p", ":", "/", "/", "e", "x", "a", "m", "p", "l", "e", ".", "c", "o",
    "m">>
UrlFull ==
  <<"h", "t", "t", "p", ":", "/", "/", "e", "x", "a", "m", "p", "l", "e", ".", "c", "o",
    "m", ":", "8", "0", "8", "0", "/", "a", "?", "f", "o", "o", "=", "b", "a", "r", "#",
    "h", "a", "s", "h">>
UrlFtp ==
  <<"f", "t", "p", ":", "/", "/", "e", "x", "a", "m", "p", "l", "e", ".", "c", "o", "m">>
\* an explicit port that is the default port of its scheme
UrlFtpPort ==
  <<"f", "t", "p", ":", "/", "/", "e", "x", "a", "m", "p", "l", "e", ".", "c", "o", "m",
    ":", "2", "1">>
UrlNoScheme == <<"e", "x", "a", "m", "p", "l", "e", ".", "c", "o", "m">>
UrlNoHost == <<"m", "a", "i", "l", "t", "o", ":", "b", "o", "b">>
UrlEmptyHost == <<"h", "t", "t", "p", ":", "/", "/">>

Urls == {UrlPlain, UrlFull, UrlFtp, UrlFtpPort, UrlNoScheme, UrlNoHost, UrlEmptyHost}

\* 'HTTP/1.1 200 OK\r\ncontent-length: 13\r\n\r\nHello, world!'
RespHello ==
  <<"H", "T", "T", "P", "/", "1", ".", "1", " ", "2", "0", "0", " ", "O", "K", CR, LF,
    "c", "o", "n", "t", "e", "n", "t", "-", "l", "e", "n", "g", "t", "h", ":", " ",
    "1", "3", CR, LF, CR, LF, "H", "e", "l", "l", "o", ",", " ", "w", "o", "r", "l",
    "d", "!">>
\* content-length 0 and no body
RespEmpty ==
  <<"H", CR, LF, "c", "o", "n", "t", "e", "n", "t", "-", "l", "e", "n", "g", "t", "h",
    ":", " ", "0", CR, LF, CR, LF>>
\* a capitalised header name, and one byte more than the declared length
RespExtra ==
  <<"H", CR, LF, "C", "o", "n", "t", "e", "n", "t", "-", "L", "e", "n", "g", "t", "h",
    ":", " ", "2", CR, LF, CR, LF, "a", "b", "c">>
\* no content-length header
RespNoLength == <<"H", CR, LF, CR, LF, "a", "b">>
\* a header value that holds LF CR not followed by LF; the server goes on
\* sending after the two bytes it declared
RespLoneCR ==
  <<"H", CR, LF, "c", "o", "n", "t", "e", "n", "t", "-", "l", "e", "n", "g", "t", "h",
    ":", " ", "2", CR, LF, "x", ":", " ", "a", LF, CR, "b", CR, LF, CR, LF, "h", "i",
    "!">>

\* a header value with a two-byte character (U+00E9), and a body of one
\* such character
RespUtf8 ==
  <<"H", CR, LF, "x", ":", " ", "C3", "A9", CR, LF, "c", "o", "n", "t", "e", "n", "t",
    "-", "l", "e", "n", "g", "t", "h", ":", " ", "2", CR, LF, CR, LF, "C3", "A9">>

\* a content-length value of digits followed by letters, and twelve bytes
RespBadLength ==
  <<"H", CR, LF, "c", "o", "n", "t", "e", "n", "t", "-", "l", "e", "n", "g", "t", "h",
    ":", " ", "1", "2", "a", "b", "c", CR, LF, CR, LF, "H", "e", "l", "l", "o", ",",
    " ", "w", "o", "r", "l", "d">>
\* a negative content-length value
RespNegLength ==
  <<"H", CR, LF, "c", "o", "n", "t", "e", "n", "t", "-", "l", "e", "n", "g", "t", "h",
    ":", " ", "-", "5", CR, LF, CR, LF, "a", "b", "c", "d", "e">>
\* an empty content-length value
RespEmptyLength ==
  <<"H", CR, LF, "c", "o", "n", "t", "e", "n", "t", "-", "l", "e", "n", "g", "t", "h",
    ":", " ", CR, LF, CR, LF, "a">>

\* a header whose name ends in content-length, before the content-length
\* header itself
RespShadow ==
  <<"H", CR, LF, "x", "-", "c", "o", "n", "t", "e", "n", "t", "-", "l", "e", "n", "g",
    "t", "h", ":", " ", "5", CR, LF, "c", "o", "n", "t", "e", "n", "t", "-", "l",
    "e", "n", "g", "t", "h", ":", " ", "2", CR, LF, CR, LF, "h", "i">>

\* a body of one four-byte character (U+1F600), content-length 4
RespEmoji ==
  <<"H", CR, LF, "c", "o", "n", "t", "e", "n", "t", "-", "l", "e", "n", "g", "t", "h",
    ":", " ", "4", CR, LF, CR, LF, "F0", "9F", "98", "80">>

Responses ==
  {RespHello, RespEmpty, RespExtra, RespNoLength, RespLoneCR, RespUtf8, RespBadLength,
   RespNegLength, RespEmptyLength, RespShadow, RespEmoji}

\* How many times the caller may call text() on the handle.
MaxTextCalls == 2

(***************************************************************************)
(* parseContentLength                                                      *)
(***************************************************************************)
\* The literal part of /content-length: (?<contentLength>\d+)/i
ContentLengthPattern ==
  <<"c", "o", "n", "t", "e", "n", "t", "-", "l", "e", "n", "g", "t", "h", ":", " ">>

\* The pattern matches at index i: the literal, case-insensitively, then at
\* least one digit.
PatternMatchesAt(raw, i) ==
  LET n == Len(ContentLengthPattern)
  IN  /\ i + n <= Len(raw)
      /\ LowerStr(SubSeq(raw, i, i + n - 1)) = ContentLengthPattern
      /\ raw[i + n] \in Digit

\* rawHeaders.match(pattern): the leftmost match, with \d+ greedy.  threw
\* stands for the TypeError of reading .groups of null when nothing matches.
parseContentLength(raw) ==
  LET hits == {i \in DOMAIN raw : PatternMatchesAt(raw, i)}
  IN  IF hits = {} THEN [threw |-> TRUE, value |-> 0]
      ELSE LET i     == CHOOSE j \in hits : \A k \in hits : j <= k
               first == i + Len(ContentLengthPattern)
               stop  == IndexOfFrom(raw, Range(raw) \ Digit, first)
           IN  [threw |-> FALSE,
                value |-> DigitsToNat(SubSeq(raw, first, stop - 1))]

(***************************************************************************)
(* State                                                                   *)
(***************************************************************************)
VARIABLES
  urlString,       \* the argument of fetch
  url,             \* the URL object, once new URL(urlString) has returned
  pc,              \* where the fetch is: "start", "lookup", "connecting",
                   \* "reading", "rejected", "crashed"
  uncaught,        \* the exception no handler caught, which ended the
                   \* process: "none", "connect error", "TypeError"
  fetchPromise,    \* the promise fetch returns
  lookup,          \* the promise dns.lookup returned: "none" before the
                   \* call, "pending", "resolved", "rejected"
  dnsLookups,      \* the hostnames dns.lookup was called with
  connects,        \* the {port, host} options createConnection was called with
  written,         \* what connection.write was called with
  response,        \* the bytes the server sends on this connection
  pos,             \* how many of them the 'data' listener has been handed
  peerEnded,       \* the server has closed its side
  rawHeaders,      \* readResponse: let rawHeaders
  body,            \* readResponse: let body
  headersRead,     \* readResponse: let headersRead
  contentLength,   \* readResponse: let contentLength
  onBody,          \* readResponse: let onBody; 0 is the initial () => {},
                   \* i > 0 the resolve function of the i-th text() promise
  paused,          \* the connection is paused
  pauseCalls,      \* calls of connection.pause()
  resumeCalls,     \* calls of connection.resume()
  endCalls,        \* calls of connection.end()
  endCbPending,    \* the callback given to connection.end() has yet to run
  onHeadersCalls,  \* calls of onHeaders
  onBodyCalls,     \* calls of onBody
  headersAt,       \* index in response of the character that made the
                   \* handler call onHeaders, 0 before
  pausedAtOnHeaders, \* whether the connection was paused when onHeaders ran
  textPromises,    \* the promises text() has returned, in call order
  fetches          \* two fetch calls running at once: for each its response,
                   \* its position and the closure of its readResponse call;
                   \* <<>> when a single fetch is followed

\* importCatalogue of the post "large XML files in node"
VARIABLES
  version,         \* which listing runs: "first" (async handlers, 'end'
                   \* resolves directly), "pendingHandlers" (handler promises
                   \* awaited in 'end'), "pause" (the same with
                   \* xmlStream.pause() and resume()); "none" elsewhere
  xmlProducts,     \* the number of product elements in the XML stream
  parsed,          \* how many of them the parser has emitted as 'product'
  products,        \* let products: the products held in memory
  pendingHandlers, \* the promise of each 'product' handler call, in call
                   \* order: "pending" or "fulfilled"
  imports,         \* the calls of api.import, in call order
  streamPaused,    \* xmlStream is paused
  endHandler,      \* the 'end' handler: "idle", "awaiting handlers",
                   \* "awaiting import", "done"
  importPromise    \* the promise importCatalogue returned

\* The tag filter script of the home page
VARIABLES
  href,            \* window.location.href
  posts,           \* the listed posts: for each the texts of its pills
  display,         \* for each post the display its style gives: "" or "none"
  scriptDone       \* the script has run

vars ==
  <<urlString, url, pc, uncaught, fetchPromise, lookup, dnsLookups, connects,
    written, response, pos, peerEnded, rawHeaders, body, headersRead, contentLength,
    onBody, paused, pauseCalls, resumeCalls, endCalls, endCbPending, onHeadersCalls, onBodyCalls,
    headersAt, pausedAtOnHeaders, textPromises, fetches,
    version, xmlProducts, parsed, products, pendingHandlers, imports, streamPaused,
    endHandler, importPromise, href, posts, display, scriptDone>>

importVars ==
  <<version, xmlProducts, parsed, products, pendingHandlers, imports, streamPaused,
    endHandler, importPromise>>

filterVars == <<href, posts, display, scriptDone>>

\* importCatalogue is not called.
ImportUnused ==
  /\ version = "none"
  /\ xmlProducts = 0
  /\ parsed = 0
  /\ products = <<>>
  /\ pendingHandlers = <<>>
  /\ imports = <<>>
  /\ streamPaused = FALSE
  /\ endHandler = "idle"
  /\ importPromise = "pending"

\* The home page is not loaded.
FilterUnused ==
  /\ href = <<>>
  /\ posts = <<>>
  /\ display = <<>>
  /\ scriptDone = FALSE

\* let contentLength; (not yet assigned)
undefined == -1

Pending == [state |-> "pending", value |-> <<>>]

(***************************************************************************)
(* readResponse: the 'data' listener                                       *)
(***************************************************************************)
bodyStartMarker == <<LF, CR>>

\* rawHeaders.slice(-1)
PreviousChar(raw) == IF raw = <<>> THEN <<>> ELSE <<raw[Len(raw)]>>

\* `${previousChar}${char}` === bodyStartMarker
IsBodyStart(raw, char) == PreviousChar(raw) \o <<char>> = bodyStartMarker

\* The state the listener reads and writes, as a record: the closure
\* variables of readResponse, the connection and the fetch promise; at is
\* the number of bytes of the response whose characters the loop has handled.
HandlerState ==
  [rawHeaders |-> rawHeaders, body |-> body, headersRead |-> headersRead,
   contentLength |-> contentLength, paused |-> paused, pauseCalls |-> pauseCalls,
   endCalls |-> endCalls, endCbPending |-> endCbPending,
   onHeadersCalls |-> onHeadersCalls, headersAt |-> headersAt,
   pausedAtOnHeaders |-> pausedAtOnHeaders, fetchPromise |-> fetchPromise,
   at |-> pos, threw |-> FALSE]

\* The listener's state when readResponse has just attached it.
FreshHandlerState ==
  [rawHeaders |-> <<>>, body |-> <<>>, headersRead |-> FALSE,
   contentLength |-> undefined, paused |-> FALSE, pauseCalls |-> 0,
   endCalls |-> 0, endCbPending |-> FALSE, onHeadersCalls |-> 0, headersAt |-> 0,
   pausedAtOnHeaders |-> FALSE, fetchPromise |-> Pending, at |-> 0,
   threw |-> FALSE]

\* The marker branch without its connection.pause().
ConnectionPauseForgotten(st) == st

\* connection.pause()
ConnectionPause(st) == [st EXCEPT !.paused = TRUE, !.pauseCalls = @ + 1]

\* The marker branch without its call of onHeaders.
OnHeadersForgotten(st) == st

\* The object literal given to onHeaders: its only property is the method
\* text.
Handle == [text |-> "async function"]

\* onHeaders({async text() {...}}): onHeaders is the resolve function of the
\* promise fetch returns; resolving a settled promise changes nothing.
OnHeaders(st) ==
  [st EXCEPT !.onHeadersCalls = @ + 1,
             !.headersAt = st.at + 1,
             !.pausedAtOnHeaders = st.paused,
             !.fetchPromise = IF @.state = "pending"
                                THEN [state |-> "resolved", value |-> Handle]
                                ELSE @]

\* The branch taken when the marker is seen: parse the content length (which
\* may throw), set headersRead, pause, call back.
HeadersEnd(st) ==
  LET cl == parseContentLength(st.rawHeaders)
  IN  IF cl.threw THEN [st EXCEPT !.threw = TRUE]
      ELSE OnHeaders(ConnectionPause(
             [st EXCEPT !.contentLength = cl.value, !.headersRead = TRUE]))

\* A body branch that tests body.length >= contentLength.
BodyCharAtLeast(st, char) ==
  LET b == Append(st.body, char)
  IN  IF StrLength(b) >= st.contentLength
        THEN [st EXCEPT !.body = b, !.endCalls = @ + 1, !.endCbPending = TRUE]
        ELSE [st EXCEPT !.body = b]

\* The else branch: body += char, and connection.end(...) when body.length
\* equals contentLength.
BodyChar(st, char) ==
  LET b == Append(st.body, char)
  IN  IF StrLength(b) = st.contentLength
        THEN [st EXCEPT !.body = b, !.endCalls = @ + 1, !.endCbPending = TRUE]
        ELSE [st EXCEPT !.body = b]

\* A loop body that goes on appending to rawHeaders after the headers were
\* read.
DataCharHeadersAlways(st, char) ==
  IF ~st.headersRead
    THEN IF IsBodyStart(st.rawHeaders, char)
           THEN HeadersEnd(st)
           ELSE [st EXCEPT !.rawHeaders = Append(@, char)]
    ELSE [BodyChar(st, char) EXCEPT !.rawHeaders = Append(@, char)]

\* One iteration of for (let char of data.toString('utf8')).
DataChar(st, char) ==
  IF ~st.headersRead
    THEN IF IsBodyStart(st.rawHeaders, char)
           THEN HeadersEnd(st)
           ELSE [st EXCEPT !.rawHeaders = Append(@, char)]
    ELSE BodyChar(st, char)

\* The loop over the characters of the decoded chunk; an exception ends it.
RECURSIVE ProcessChars(_, _)
ProcessChars(st, chars) ==
  IF chars = <<>> \/ st.threw THEN st
  ELSE ProcessChars([DataChar(st, Head(chars).c) EXCEPT !.at = @ + Head(chars).n],
                    Tail(chars))

\* connection.on('data', (data) => {...}): data is the buffer of one chunk,
\* decoded by itself.
OnData(st, data) == ProcessChars(st, DecodeUtf8(data))

(***************************************************************************)
(* fetch                                                                   *)
(***************************************************************************)
\* A request whose target is the pathname followed by the query string.
RequestWithSearch(u) ==
  <<"G", "E", "T", " ">> \o u.pathname \o u.search
    \o <<" ", "H", "T", "T", "P", "/", "1", ".", "1">>
    \o <<LF>> \o <<"h", "o", "s", "t", ":", " ">> \o u.hostname \o <<LF, LF>>

\* `GET ${url.pathname} HTTP/1.1` + '\n' + `host: ${url.hostname}` + '\n\n'
Request(u) ==
  <<"G", "E", "T", " ">> \o u.pathname \o <<" ", "H", "T", "T", "P", "/", "1", ".", "1">>
    \o <<LF>> \o <<"h", "o", "s", "t", ":", " ">> \o u.hostname \o <<LF, LF>>

\* url.port || 80
ConnectPort(u) == IF u.port = <<>> THEN 80 ELSE DigitsToNat(u.port)

Init ==
  /\ urlString \in Urls
  /\ url = InvalidUrl
  /\ pc = "start"
  /\ uncaught = "none"
  /\ fetchPromise = Pending
  /\ lookup = "none"
  /\ dnsLookups = <<>>
  /\ connects = <<>>
  /\ written = <<>>
  /\ response = <<>>
  /\ pos = 0
  /\ peerEnded = FALSE
  /\ rawHeaders = <<>>
  /\ body = <<>>
  /\ headersRead = FALSE
  /\ contentLength = undefined
  /\ onBody = 0
  /\ paused = FALSE
  /\ pauseCalls = 0
  /\ resumeCalls = 0
  /\ endCalls = 0
  /\ endCbPending = FALSE
  /\ onHeadersCalls = 0
  /\ onBodyCalls = 0
  /\ headersAt = 0
  /\ pausedAtOnHeaders = FALSE
  /\ textPromises = <<>>
  /\ fetches = <<>>
  /\ ImportUnused
  /\ FilterUnused

parserVars ==
  <<rawHeaders, body, headersRead, contentLength, onBody, paused, pauseCalls,
    resumeCalls, endCalls, endCbPending, onHeadersCalls, onBodyCalls, headersAt,
    pausedAtOnHeaders, textPromises>>

\* fetch(urlString) up to its first await: new URL(urlString) throws, which
\* rejects the promise of the async function, or dns.lookup is called.
Fetch ==
  /\ pc = "start"
  /\ LET u == ParseURL(urlString)
     IN  IF ~u.ok
           THEN /\ pc' = "rejected"
                /\ fetchPromise' = [state |-> "rejected", value |-> "ERR_INVALID_URL"]
                /\ UNCHANGED <<url, lookup, dnsLookups>>
           ELSE /\ pc' = "lookup"
                /\ url' = u
                /\ lookup' = "pending"
                /\ dnsLookups' = Append(dnsLookups, u.hostname)
                /\ UNCHANGED fetchPromise
  /\ UNCHANGED <<importVars, filterVars, fetches, urlString, uncaught, connects, written, response, pos, peerEnded>>
  /\ UNCHANGED parserVars

\* A fetch that swallowed the lookup failure and connected all the same.
LookupFailsIgnored ==
  /\ pc = "lookup"
  /\ pc' = "connecting"
  /\ lookup' = "rejected"
  /\ connects' = Append(connects, [port |-> ConnectPort(url), host |-> url.hostname])
  /\ UNCHANGED <<importVars, filterVars, fetches, urlString, url, uncaught, fetchPromise, dnsLookups, written,
                 response, pos, peerEnded>>
  /\ UNCHANGED parserVars

\* dns.lookup rejects: the await throws and the fetch promise is rejected.
LookupFails ==
  /\ pc = "lookup"
  /\ pc' = "rejected"
  /\ lookup' = "rejected"
  /\ fetchPromise' = [state |-> "rejected", value |-> "ENOTFOUND"]
  /\ UNCHANGED <<importVars, filterVars, fetches, urlString, url, uncaught, dnsLookups, connects, written, response,
                 pos, peerEnded>>
  /\ UNCHANGED parserVars

\* dns.lookup resolves: createConnection({port, host}, callback) is called.
\* The address of the record is written as the hostname it was looked up for.
LookupResolves ==
  /\ pc = "lookup"
  /\ pc' = "connecting"
  /\ lookup' = "resolved"
  /\ connects' = Append(connects, [port |-> ConnectPort(url), host |-> url.hostname])
  /\ UNCHANGED <<importVars, filterVars, fetches, urlString, url, uncaught, fetchPromise, dnsLookups, written,
                 response, pos, peerEnded>>
  /\ UNCHANGED parserVars

\* A fetch that answered a failed connection attempt with a second attempt.
ConnectErrorRetried ==
  /\ pc = "connecting"
  /\ Len(connects) < 2
  /\ connects' = Append(connects, [port |-> ConnectPort(url), host |-> url.hostname])
  /\ UNCHANGED <<importVars, filterVars, fetches, urlString, url, pc, uncaught, fetchPromise, lookup, dnsLookups, written,
                 response, pos, peerEnded>>
  /\ UNCHANGED parserVars

\* The connection emits 'error' and nothing listens for it: an uncaught
\* exception, which ends the process.
ConnectError ==
  /\ pc = "connecting"
  /\ pc' = "crashed"
  /\ uncaught' = "connect error"
  /\ UNCHANGED <<importVars, filterVars, fetches, urlString, url, fetchPromise, lookup, dnsLookups, connects, written,
                 response, pos, peerEnded>>
  /\ UNCHANGED parserVars

\* A connect callback that attached the 'data' listener without writing the
\* request.
ConnectedWithoutWrite ==
  /\ pc = "connecting"
  /\ pc' = "reading"
  /\ \E r \in Responses : response' = r
  /\ UNCHANGED <<importVars, filterVars, fetches, urlString, url, uncaught, fetchPromise, lookup, dnsLookups, connects,
                 written, pos, peerEnded>>
  /\ UNCHANGED parserVars

\* The connect callback: write the request, attach the 'data' listener.  The
\* server answers with one of the responses.
Connected ==
  /\ pc = "connecting"
  /\ pc' = "reading"
  /\ written' = Append(written, Request(url))
  /\ \E r \in Responses : response' = r
  /\ UNCHANGED <<importVars, filterVars, fetches, urlString, url, uncaught, fetchPromise, lookup, dnsLookups, connects,
                 pos, peerEnded>>
  /\ UNCHANGED parserVars

\* The connection emits 'data' with the next k bytes of the response.
Data(k) ==
  /\ pc = "reading"
  /\ ~paused
  /\ ~peerEnded
  /\ pos + k <= Len(response)
  /\ \E st \in {OnData(HandlerState, SubSeq(response, pos + 1, pos + k))} :
         /\ rawHeaders' = st.rawHeaders
         /\ body' = st.body
         /\ headersRead' = st.headersRead
         /\ contentLength' = st.contentLength
         /\ paused' = st.paused
         /\ pauseCalls' = st.pauseCalls
         /\ endCalls' = st.endCalls
         /\ endCbPending' = st.endCbPending
         /\ onHeadersCalls' = st.onHeadersCalls
         /\ headersAt' = st.headersAt
         /\ pausedAtOnHeaders' = st.pausedAtOnHeaders
         /\ fetchPromise' = st.fetchPromise
         /\ pc' = IF st.threw THEN "crashed" ELSE pc
         /\ uncaught' = IF st.threw THEN "TypeError" ELSE uncaught
  /\ pos' = pos + k
  /\ UNCHANGED <<importVars, filterVars, fetches, urlString, url, lookup, dnsLookups, connects, written, response, peerEnded,
                 onBody, resumeCalls, onBodyCalls, textPromises>>

\* The caller, holding the handle, calls text().
Text ==
  /\ pc = "reading"
  /\ fetchPromise.state = "resolved"
  /\ Len(textPromises) < MaxTextCalls
  /\ paused' = FALSE
  /\ resumeCalls' = resumeCalls + 1
  /\ textPromises' = Append(textPromises, Pending)
  /\ onBody' = Len(textPromises) + 1
  /\ UNCHANGED <<importVars, filterVars, fetches, urlString, url, pc, uncaught, fetchPromise, lookup, dnsLookups,
                 connects, written, response, pos, peerEnded, rawHeaders, body, headersRead,
                 contentLength, pauseCalls, endCalls, endCbPending, onHeadersCalls,
                 onBodyCalls, headersAt, pausedAtOnHeaders>>

\* The callback given to connection.end runs: () => onBody(body), with the
\* values onBody and body have by now.
EndCallback ==
  /\ pc = "reading"
  /\ endCbPending
  /\ endCbPending' = FALSE
  /\ onBodyCalls' = onBodyCalls + 1
  /\ textPromises' =
       IF onBody # 0 /\ textPromises[onBody].state = "pending"
         THEN [textPromises EXCEPT ![onBody] = [state |-> "resolved", value |-> body]]
         ELSE textPromises
  /\ UNCHANGED <<importVars, filterVars, fetches, urlString, url, pc, uncaught, fetchPromise, lookup, dnsLookups,
                 connects, written, response, pos, peerEnded, rawHeaders, body, headersRead,
                 contentLength, onBody, paused, pauseCalls, resumeCalls, endCalls,
                 onHeadersCalls, headersAt, pausedAtOnHeaders>>

\* The server closes its side; what it has not sent by now never arrives.
\* readResponse listens for neither 'end' nor 'close'.
PeerEnd ==
  /\ pc = "reading"
  /\ ~peerEnded
  /\ peerEnded' = TRUE
  /\ UNCHANGED <<importVars, filterVars, fetches, urlString, url, pc, uncaught, fetchPromise, lookup, dnsLookups,
                 connects, written, response, pos>>
  /\ UNCHANGED parserVars

Next ==
  \/ Fetch
  \/ LookupFails
  \/ LookupResolves
  \/ ConnectError
  \/ Connected
  \/ \E k \in 1..Len(response) : Data(k)
  \/ Text
  \/ EndCallback
  \/ PeerEnd

Spec == Init /\ [][Next]_vars

(***************************************************************************)
(* Two fetch calls at once.  Each call of readResponse has its own closure *)
(* variables and its own connection; the two connections emit their        *)
(* 'data' events in any order.                                             *)
(***************************************************************************)
FetchIds == 1..2

\* What the two servers send.
TwoResponses == <<RespHello, RespExtra>>

\* The variables of the single fetch, which stay as they are here.
fetchVars ==
  <<urlString, url, pc, uncaught, fetchPromise, lookup, dnsLookups, connects,
    written, response, pos, peerEnded, rawHeaders, body, headersRead, contentLength,
    onBody, paused, pauseCalls, resumeCalls, endCalls, endCbPending, onHeadersCalls,
    onBodyCalls, headersAt, pausedAtOnHeaders, textPromises>>

\* Both calls have connected, written their request and called readResponse:
\* each has a fresh set of closure variables.
TwoInit ==
  /\ fetches = [i \in FetchIds |->
                  [response |-> TwoResponses[i], st |-> FreshHandlerState,
                   onBody |-> 0, textPromises |-> <<>>]]
  /\ urlString = UrlPlain
  /\ url = ParseURL(UrlPlain)
  /\ pc = "reading"
  /\ uncaught = "none"
  /\ fetchPromise = Pending
  /\ lookup = "resolved"
  /\ dnsLookups = <<>>
  /\ connects = <<>>
  /\ written = <<>>
  /\ response = <<>>
  /\ pos = 0
  /\ peerEnded = FALSE
  /\ rawHeaders = <<>>
  /\ body = <<>>
  /\ headersRead = FALSE
  /\ contentLength = undefined
  /\ onBody = 0
  /\ paused = FALSE
  /\ pauseCalls = 0
  /\ resumeCalls = 0
  /\ endCalls = 0
  /\ endCbPending = FALSE
  /\ onHeadersCalls = 0
  /\ onBodyCalls = 0
  /\ headersAt = 0
  /\ pausedAtOnHeaders = FALSE
  /\ textPromises = <<>>
  /\ ImportUnused
  /\ FilterUnused

\* A listener that kept its variables outside readResponse: what one
\* connection's 'data' event leaves behind is what every call sees.
TwoDataShared(i, k) ==
  /\ ~fetches[i].st.paused
  /\ ~fetches[i].st.threw
  /\ fetches[i].st.at + k <= Len(fetches[i].response)
  /\ \E st \in {OnData(fetches[i].st, SubSeq(fetches[i].response, fetches[i].st.at + 1,
                                             fetches[i].st.at + k))} :
       fetches' = [j \in FetchIds |->
                     [fetches[j] EXCEPT !.st = IF j = i THEN st
                                               ELSE [st EXCEPT !.at = fetches[j].st.at]]]
  /\ UNCHANGED <<fetchVars, importVars, filterVars>>

\* The connection of call i emits 'data' with its next k bytes: the listener
\* of call i runs on the closure variables of call i.
TwoData(i, k) ==
  /\ ~fetches[i].st.paused
  /\ ~fetches[i].st.threw
  /\ fetches[i].st.at + k <= Len(fetches[i].response)
  /\ \E st \in {OnData(fetches[i].st, SubSeq(fetches[i].response, fetches[i].st.at + 1,
                                             fetches[i].st.at + k))} :
       fetches' = [fetches EXCEPT ![i].st = st]
  /\ UNCHANGED <<fetchVars, importVars, filterVars>>

\* The caller of call i calls text() on its handle.
TwoText(i) ==
  /\ fetches[i].st.fetchPromise.state = "resolved"
  /\ Len(fetches[i].textPromises) < MaxTextCalls
  /\ fetches' = [fetches EXCEPT ![i].st.paused = FALSE,
                                ![i].textPromises = Append(@, Pending),
                                ![i].onBody = Len(fetches[i].textPromises) + 1]
  /\ UNCHANGED <<fetchVars, importVars, filterVars>>

\* The callback call i gave to connection.end runs.
TwoEndCallback(i) ==
  /\ fetches[i].st.endCbPending
  /\ fetches' =
       [fetches EXCEPT
          ![i].st.endCbPending = FALSE,
          ![i].textPromises =
             IF fetches[i].onBody # 0 /\ @[fetches[i].onBody].state = "pending"
               THEN [@ EXCEPT ![fetches[i].onBody] =
                       [state |-> "resolved", value |-> fetches[i].st.body]]
               ELSE @]
  /\ UNCHANGED <<fetchVars, importVars, filterVars>>

TwoNext ==
  \/ \E i \in FetchIds : \E k \in 1..Len(fetches[i].response) : TwoData(i, k)
  \/ \E i \in FetchIds : TwoText(i)
  \/ \E i \in FetchIds : TwoEndCallback(i)

TwoSpec == TwoInit /\ [][TwoNext]_vars

(***************************************************************************)
(* importCatalogue, from the post on large XML files.  The products of the *)
(* stream are numbered 1..xmlProducts in document order.  ProductParser    *)
(* emits 'product' synchronously for every product of the chunk written to *)
(* the sax stream, and 'end' once the readable has ended.  The listings    *)
(* write readable.pipe(xml) for readableStream.pipe(xml) and (async () {   *)
(* for (async () => {; they are read as the latter.                        *)
(***************************************************************************)
THRESHOLD == 2

MaxProducts == 5

Versions == {"first", "pendingHandlers", "pause"}

\* fetch is not called.
FetchUnused ==
  /\ fetches = <<>>
  /\ urlString = UrlPlain
  /\ url = ParseURL(UrlPlain)
  /\ pc = "idle"
  /\ uncaught = "none"
  /\ fetchPromise = Pending
  /\ lookup = "none"
  /\ dnsLookups = <<>>
  /\ connects = <<>>
  /\ written = <<>>
  /\ response = <<>>
  /\ pos = 0
  /\ peerEnded = FALSE
  /\ rawHeaders = <<>>
  /\ body = <<>>
  /\ headersRead = FALSE
  /\ contentLength = undefined
  /\ onBody = 0
  /\ paused = FALSE
  /\ pauseCalls = 0
  /\ resumeCalls = 0
  /\ endCalls = 0
  /\ endCbPending = FALSE
  /\ onHeadersCalls = 0
  /\ onBodyCalls = 0
  /\ headersAt = 0
  /\ pausedAtOnHeaders = FALSE
  /\ textPromises = <<>>

\* A handler that sends a batch only once it holds more than THRESHOLD.
ThresholdExceeded(ps) == Len(ps) > THRESHOLD

\* products.length >= THRESHOLD
ThresholdReached(ps) == Len(ps) >= THRESHOLD

\* A handler that sends the batch and keeps the products.
ProductsKept(ps) == ps

\* products = []
ProductsEmptied(ps) == <<>>

\* What a 'product' handler reads and writes.
ImportState ==
  [products |-> products, pendingHandlers |-> pendingHandlers, imports |-> imports,
   streamPaused |-> streamPaused]

\* One call of the 'product' handler, up to its await or its return.  In
\* the first listing the promise of the async handler is dropped by emit;
\* in the later ones it is pushed on pendingHandlers: pending when the
\* handler awaits api.import(batch), else already fulfilled.
ProductHandler(st, product) ==
  LET pushed == Append(st.products, product)
      kept == version # "first"
      handler == IF kept THEN Len(st.pendingHandlers) + 1 ELSE 0
  IN IF ThresholdReached(pushed)
       THEN [products |-> ProductsEmptied(pushed),
             pendingHandlers |-> IF kept THEN Append(st.pendingHandlers, "pending")
                                         ELSE st.pendingHandlers,
             imports |-> Append(st.imports,
                                [batch |-> pushed, from |-> "product",
                                 state |-> "pending", handler |-> handler]),
             streamPaused |-> (version = "pause") \/ st.streamPaused]
       ELSE [st EXCEPT !.products = pushed,
                       !.pendingHandlers = IF kept THEN Append(@, "fulfilled") ELSE @]

\* The closetag listener over the products of one chunk: this.emit("product")
\* calls the handler before the parser reads on.
RECURSIVE EmitProducts(_, _, _)
EmitProducts(st, next, k) ==
  IF k = 0 THEN st ELSE EmitProducts(ProductHandler(st, next), next + 1, k - 1)

\* An 'end' handler that does not wait for the handlers.
NoneAwaited(handlers) == TRUE

\* await Promise.all(pendingHandlers): every handler promise is fulfilled.
\* The first listing has no such await and no handler promise.
AllSettled(handlers) == \A i \in DOMAIN handlers : handlers[i] = "fulfilled"

\* An 'end' handler that calls api.import(products) and resolves at once.
FinalImportNotAwaited(ps, imps) ==
  [imports |-> IF ps # <<>>
                 THEN Append(imps, [batch |-> ps, from |-> "end", state |-> "pending",
                                    handler |-> 0])
                 ELSE imps,
   endHandler |-> "done",
   importPromise |-> "resolved"]

\* The 'end' handler after its wait for the handlers:
\* if (products.length) { await api.import(products); } resolve();
FinalImport(ps, imps) ==
  IF ps # <<>>
    THEN [imports |-> Append(imps, [batch |-> ps, from |-> "end", state |-> "pending",
                                    handler |-> 0]),
          endHandler |-> "awaiting import",
          importPromise |-> "pending"]
    ELSE [imports |-> imps, endHandler |-> "done", importPromise |-> "resolved"]

\* importCatalogue(xmlStream) has registered its handlers and called parse.
ImportInit ==
  /\ version \in Versions
  /\ xmlProducts \in 0..MaxProducts
  /\ parsed = 0
  /\ products = <<>>
  /\ pendingHandlers = <<>>
  /\ imports = <<>>
  /\ streamPaused = FALSE
  /\ endHandler = "idle"
  /\ importPromise = "pending"
  /\ FetchUnused
  /\ FilterUnused

\* A chunk of the stream that closes k products reaches the sax stream: the
\* whole chunk is parsed in this call, whatever a handler does to xmlStream.
Chunk(k) ==
  /\ ~streamPaused
  /\ endHandler = "idle"
  /\ k >= 1
  /\ parsed + k <= xmlProducts
  /\ \E st \in {EmitProducts(ImportState, parsed + 1, k)} :
       /\ products' = st.products
       /\ pendingHandlers' = st.pendingHandlers
       /\ imports' = st.imports
       /\ streamPaused' = st.streamPaused
  /\ parsed' = parsed + k
  /\ UNCHANGED <<version, xmlProducts, endHandler, importPromise, fetchVars, fetches,
                 filterVars>>

\* The stream has ended and is flowing: 'end' is emitted and its handler
\* runs up to its first await that has to wait.
End ==
  /\ ~streamPaused
  /\ endHandler = "idle"
  /\ parsed = xmlProducts
  /\ IF AllSettled(pendingHandlers)
       THEN \E st \in {FinalImport(products, imports)} :
              /\ imports' = st.imports
              /\ endHandler' = st.endHandler
              /\ importPromise' = st.importPromise
       ELSE /\ endHandler' = "awaiting handlers"
            /\ UNCHANGED <<imports, importPromise>>
  /\ UNCHANGED <<version, xmlProducts, parsed, products, pendingHandlers, streamPaused,
                 fetchVars, fetches, filterVars>>

\* The promise of the i-th api.import call is fulfilled, and what awaited it
\* goes on: a 'product' handler resumes the stream (third listing) and
\* returns, which may let the 'end' handler past Promise.all; the 'end'
\* handler resolves.
ImportCompletes(i) ==
  /\ i \in DOMAIN imports
  /\ imports[i].state = "pending"
  /\ \E done \in {[imports EXCEPT ![i].state = "done"]} :
     \E handlers \in {IF imports[i].handler # 0
                        THEN [pendingHandlers EXCEPT ![imports[i].handler] = "fulfilled"]
                        ELSE pendingHandlers} :
       /\ pendingHandlers' = handlers
       /\ streamPaused' = IF imports[i].from = "product" /\ version = "pause"
                            THEN FALSE ELSE streamPaused
       /\ IF imports[i].from = "end"
            THEN /\ imports' = done
                 /\ endHandler' = "done"
                 /\ importPromise' = "resolved"
            ELSE IF endHandler = "awaiting handlers" /\ AllSettled(handlers)
              THEN \E st \in {FinalImport(products, done)} :
                     /\ imports' = st.imports
                     /\ endHandler' = st.endHandler
                     /\ importPromise' = st.importPromise
              ELSE /\ imports' = done
                   /\ UNCHANGED <<endHandler, importPromise>>
  /\ UNCHANGED <<version, xmlProducts, parsed, products, fetchVars, fetches, filterVars>>

ImportNext ==
  \/ \E k \in 1..MaxProducts : Chunk(k)
  \/ End
  \/ \E i \in 1..(MaxProducts + 1) : ImportCompletes(i)

ImportSpec == ImportInit /\ [][ImportNext]_vars

(***************************************************************************)
(* The tag filter of the home page.  The script is a module script, so it  *)
(* runs once the document is parsed: the post list it queries is complete. *)
(* A post is the list of its pills' texts (the categories the template     *)
(* writes into li.pill); 'ul.post-list > li' selects the posts only, the   *)
(* pills being children of ul.pills.                                       *)
(***************************************************************************)
MaxPosts == 3

Js == <<"j", "s">>
Go == <<"g", "o">>

PillLists == {<<>>, <<Js>>, <<Go>>, <<Js, Go>>}

PostLists == UNION {[1..n -> PillLists] : n \in 0..MaxPosts}

Home == UrlPlain \o <<"/">>

TagEquals == <<"t", "a", "g", "=">>

Hrefs ==
  {Home,
   Home \o <<"?">> \o TagEquals \o Js,
   Home \o <<"?">> \o TagEquals \o Go,
   Home \o <<"?">> \o TagEquals \o <<"c">>,
   Home \o <<"?">> \o TagEquals \o <<"J", "s">>,
   Home \o <<"?">> \o TagEquals,
   Home \o <<"?", "t", "a", "g">>,
   Home \o <<"?", "p", "=">> \o Js,
   Home \o <<"?", "p", "=", "2", "&">> \o TagEquals \o Go,
   Home \o <<"?">> \o TagEquals \o Js \o <<"&">> \o TagEquals \o Go,
   Home \o <<"?">> \o TagEquals \o Js \o <<"#">> \o Go,
   Home \o <<"#">> \o TagEquals \o Js}

\* One name=value piece of a query: split at the first "=", a piece without
\* one is a name with the empty value; "+" stands for a space.  The queries
\* followed hold no percent-encoded byte.
Pair(piece) ==
  LET eq    == IndexOfFrom(piece, {"="}, 1)
      plus(str) == [i \in DOMAIN str |-> IF str[i] = "+" THEN " " ELSE str[i]]
  IN  [name  |-> plus(SubSeq(piece, 1, eq - 1)),
       value |-> plus(SubSeq(piece, eq + 1, Len(piece)))]

\* The pairs of a query without its "?": the pieces between "&", empty
\* pieces skipped.
RECURSIVE QueryPairs(_)
QueryPairs(query) ==
  IF query = <<>> THEN <<>>
  ELSE LET amp   == IndexOfFrom(query, {"&"}, 1)
           piece == SubSeq(query, 1, amp - 1)
           rest  == QueryPairs(SubSeq(query, amp + 1, Len(query)))
       IN  IF piece = <<>> THEN rest ELSE <<Pair(piece)>> \o rest

\* url.searchParams
SearchParams(u) == QueryPairs(IF u.search = <<>> THEN <<>> ELSE Tail(u.search))

\* searchParams.get(name): the value of the first pair of that name, or null.
Get(params, name) ==
  LET hits == {i \in DOMAIN params : params[i].name = name}
  IN  IF hits = {} THEN [null |-> TRUE, value |-> <<>>]
      ELSE [null |-> FALSE, value |-> params[CHOOSE i \in hits : \A j \in hits : i <= j].value]

\* if (tag): null and the empty string are falsy.
Truthy(v) == ~v.null /\ v.value # <<>>

\* posts.filter(post => !postTags.includes(tag)), as the positions kept
Excluded(ps, tag) == {i \in DOMAIN ps : tag \notin Range(ps[i])}

\* A script that hides the excluded posts whatever their number.
AlwaysHide(excluded, ps) == TRUE

\* excluded.length < posts.length
SomePostLeft(excluded, ps) == Cardinality(excluded) < Len(ps)

\* The display of each post once the script has run.
FilterScript(location, ps) ==
  LET tag      == Get(SearchParams(ParseURL(location)), <<"t", "a", "g">>)
      excluded == Excluded(ps, tag.value)
  IN  [i \in DOMAIN ps |->
         IF Truthy(tag) /\ SomePostLeft(excluded, ps) /\ i \in excluded
           THEN "none" ELSE ""]

\* The home page is parsed: every post has the display of the style sheet.
FilterInit ==
  /\ href \in Hrefs
  /\ posts \in PostLists
  /\ display = [i \in DOMAIN posts |-> ""]
  /\ scriptDone = FALSE
  /\ FetchUnused
  /\ ImportUnused

RunScript ==
  /\ ~scriptDone
  /\ display' = FilterScript(href, posts)
  /\ scriptDone' = TRUE
  /\ UNCHANGED <<href, posts, fetchVars, fetches, importVars>>

FilterNext == RunScript

FilterSpec == FilterInit /\ [][FilterNext]_vars

(***************************************************************************)
(* What the wire format says about a response, independently of the        *)
(* listener: where the header block ends and which bytes are the body.     *)
(***************************************************************************)
Terminator == <<CR, LF, CR, LF>>

\* Index of the last byte of the first CR LF CR LF of r, 0 when r has none.
TerminatorEnd(r) ==
  LET hits == {i \in 1..(Len(r) - 3) : SubSeq(r, i, i + 3) = Terminator}
  IN  IF hits = {} THEN 0
      ELSE (CHOOSE i \in hits : \A j \in hits : i <= j) + 3

\* The header block of r, without its terminator.
HeaderBlock(r) == SubSeq(r, 1, TerminatorEnd(r) - 4)

\* s cut at every CR LF.
RECURSIVE SplitCrLf(_)
SplitCrLf(s) ==
  LET hits == {i \in 1..(Len(s) - 1) : s[i] = CR /\ s[i + 1] = LF}
  IN  IF hits = {} THEN <<s>>
      ELSE LET i == CHOOSE j \in hits : \A k \in hits : j <= k
           IN  <<SubSeq(s, 1, i - 1)>> \o SplitCrLf(SubSeq(s, i + 2, Len(s)))

\* The name of a header line: what precedes its first colon, in lower case.
FieldName(line) == LowerStr(SubSeq(line, 1, IndexOfFrom(line, {":"}, 1) - 1))

\* s without the spaces at its two ends.
RECURSIVE Trim(_)
Trim(s) ==
  IF s = <<>> THEN s
  ELSE IF Head(s) = " " THEN Trim(Tail(s))
  ELSE IF s[Len(s)] = " " THEN Trim(SubSeq(s, 1, Len(s) - 1))
  ELSE s

\* The value of a header line: what follows its first colon, trimmed.
FieldValue(line) == Trim(SubSeq(line, IndexOfFrom(line, {":"}, 1) + 1, Len(line)))

IsContentLengthLine(line) ==
  /\ IndexOfFrom(line, {":"}, 1) <= Len(line)
  /\ FieldName(line) = SubSeq(ContentLengthPattern, 1, 14)

\* The values of the content-length header lines of r, in order.
ContentLengthValues(r) ==
  LET lines == SelectSeq(SplitCrLf(HeaderBlock(r)), IsContentLengthLine)
  IN  [i \in DOMAIN lines |-> FieldValue(lines[i])]

\* v is not a non-negative decimal integer: it is empty or holds a character
\* that is not a digit.
InvalidLengthValue(v) == v = <<>> \/ \E i \in DOMAIN v : v[i] \notin Digit

\* r has a complete header block whose content-length value is invalid.
DeclaresInvalidLength(r) ==
  /\ TerminatorEnd(r) > 0
  /\ ContentLengthValues(r) # <<>>
  /\ InvalidLengthValue(ContentLengthValues(r)[1])

\* r has a header block whose first content-length header holds a run of
\* digits.
DeclaresLength(r) ==
  /\ TerminatorEnd(r) > 0
  /\ ContentLengthValues(r) # <<>>
  /\ ~InvalidLengthValue(ContentLengthValues(r)[1])

\* The length that header declares, 0 when there is none.
DeclaredLength(r) ==
  IF DeclaresLength(r) THEN DigitsToNat(ContentLengthValues(r)[1]) ELSE 0

\* The bytes of r that follow the terminator.
AfterTerminator(r) == SubSeq(r, TerminatorEnd(r) + 1, Len(r))

\* r is a header block, then exactly the N >= 1 body bytes it declares.
WellFramed(r) ==
  /\ DeclaresLength(r)
  /\ DeclaredLength(r) >= 1
  /\ Len(AfterTerminator(r)) = DeclaredLength(r)

\* r has a complete header block without a content-length header.
LacksContentLength(r) == TerminatorEnd(r) > 0 /\ ContentLengthValues(r) = <<>>

\* The code has closed the connection: it called connection.end(), or the
\* socket, flowing and not half-open, ended itself when the peer ended.
ConnectionClosed == endCalls >= 1 \/ (peerEnded /\ ~paused)

IsPrefix(a, b) == Len(a) <= Len(b) /\ a = SubSeq(b, 1, Len(a))

Resolved(i) == i \in DOMAIN textPromises /\ textPromises[i].state = "resolved"

(***************************************************************************)
(* Claims                                                                  *)
(***************************************************************************)

\* C1: for a response that declares content-length N >= 1 and carries exactly
\* those N bytes, however they are chunked, text() resolves with exactly the
\* text of the N bytes that follow the CR LF CR LF terminator.
C1_BodyIsBytesAfterTerminator ==
  \A i \in DOMAIN textPromises :
    (pc = "reading" /\ WellFramed(response) /\ Resolved(i))
      => textPromises[i].value = ToStringUtf8(AfterTerminator(response))

\* C2: whatever the chunking, onHeaders is called at most once, and when the
\* listener has been handed the bytes up to the place where it calls
\* onHeaders on the whole response given as one chunk, it has called it
\* exactly once, at that same place and with the same rawHeaders and
\* contentLength; onHeaders resolves the fetch promise.
C2_HeadersIndependentOfChunking ==
  pc \in {"reading", "crashed"} =>
    \E ref \in {OnData(FreshHandlerState, response)} :
      /\ onHeadersCalls <= 1
      /\ onHeadersCalls = 1 =>
           /\ ref.onHeadersCalls = 1
           /\ headersAt = ref.headersAt
           /\ rawHeaders = ref.rawHeaders
           /\ contentLength = ref.contentLength
           /\ fetchPromise.state = "resolved"
      /\ (ref.onHeadersCalls = 1 /\ pos >= ref.headersAt) => onHeadersCalls = 1
      /\ (ref.onHeadersCalls = 0 \/ pos < ref.headersAt) => onHeadersCalls = 0

\* C3: headers-ready fires when the fourth byte of the first CR LF CR LF has
\* been consumed and not before, no terminator byte is ever appended to the
\* body, and the body starts with the byte right after the terminator (so an
\* LF CR that is not followed by LF does not end the header block).
C3_HeaderBlockEndsAtTerminator ==
  pc \in {"reading", "crashed"} =>
    /\ onHeadersCalls >= 1 => headersAt = TerminatorEnd(response)
    /\ IsPrefix(body, ToStringUtf8(AfterTerminator(response)))

\* C4: a step in which onBody is called or a text() promise becomes resolved
\* starts in a state where onHeaders has already been called and the fetch
\* promise is already resolved.
C4_HeadersReadyBeforeBodyReady ==
  [][ (\/ onBodyCalls' > onBodyCalls
       \/ \E i \in DOMAIN textPromises' :
            /\ textPromises'[i].state = "resolved"
            /\ ~Resolved(i))
      => (onHeadersCalls >= 1 /\ fetchPromise.state = "resolved") ]_vars

\* C4 witness: the body callback has run and resolved a text() promise.
C4_Witness == onBodyCalls >= 1 /\ Resolved(1) /\ onHeadersCalls = 1

\* C5: the connection is paused when onHeaders is called, it stays paused for
\* as long as text() has not been called, and every resume() comes from a
\* call of text().
C5_PausedUntilText ==
  /\ onHeadersCalls >= 1 => pausedAtOnHeaders
  /\ (onHeadersCalls >= 1 /\ textPromises = <<>>) => paused
  /\ resumeCalls = Len(textPromises)
  /\ pauseCalls = onHeadersCalls

\* C5 witness: headers are ready, text() has not been called, the connection
\* is paused and the server still has body bytes to deliver.
C5_Witness ==
  /\ onHeadersCalls = 1
  /\ textPromises = <<>>
  /\ paused
  /\ pos < Len(response)
  /\ WellFramed(response)

\* C6: with content-length 0, once text() has been called and no callback is
\* outstanding, its promise is resolved with the empty string, whether or
\* not more data arrives.
C6_ZeroLengthBodyResolves ==
  (/\ pc = "reading"
   /\ onHeadersCalls >= 1
   /\ contentLength = 0
   /\ Len(textPromises) = 1
   /\ ~endCbPending)
    => (textPromises[1].state = "resolved" /\ textPromises[1].value = <<>>)

\* C7: when the server has closed after the whole header block and fewer
\* body bytes than declared, the pending text() promise is rejected with
\* ConnectionClosedPrematurely and the fetch promise stays resolved.
C7_PrematureCloseRejectsBody ==
  (/\ pc = "reading"
   /\ onHeadersCalls >= 1
   /\ DeclaresLength(response)
   /\ peerEnded
   /\ pos >= TerminatorEnd(response)
   /\ pos - TerminatorEnd(response) < DeclaredLength(response)
   /\ Len(textPromises) = 1
   /\ ~endCbPending)
    => /\ textPromises[1].state = "rejected"
       /\ textPromises[1].value = "ConnectionClosedPrematurely"
       /\ fetchPromise.state = "resolved"

\* C8: a second text() does not resume the connection a second time, and
\* once the body callback has run no promise returned by text() is pending.
C8_SecondTextReadsNothing ==
  /\ resumeCalls <= 1
  /\ (onBodyCalls >= 1 /\ ~endCbPending) =>
       \A i \in DOMAIN textPromises : textPromises[i].state # "pending"

\* C9: after fetch has run on a URL with a host whose scheme is not http
\* (ftp://example.com), the promise is
\* rejected with UnsupportedScheme and there has been no lookup, no
\* connection and no write.
C9_NonHttpSchemeRejected ==
  (/\ pc # "start"
   /\ ParseURL(urlString).ok
   /\ ParseURL(urlString).hostname # <<>>
   /\ ParseURL(urlString).protocol # <<"h", "t", "t", "p">>)
    => /\ fetchPromise.state = "rejected"
       /\ fetchPromise.value = "UnsupportedScheme"
       /\ dnsLookups = <<>>
       /\ connects = <<>>
       /\ written = <<>>

\* The string has no scheme or no host: new URL rejects it, or accepts it
\* with an empty hostname.
LacksSchemeOrHost(s) == ~ParseURL(s).ok \/ ParseURL(s).hostname = <<>>

\* C10: after fetch has run on a string without a recognisable scheme or
\* host, the promise is rejected with the malformed-URL error (the TypeError
\* of new URL) and there has been no lookup and no connection.
C10_MalformedUrlRejected ==
  (pc # "start" /\ LacksSchemeOrHost(urlString))
    => /\ fetchPromise.state = "rejected"
       /\ fetchPromise.value = "ERR_INVALID_URL"
       /\ dnsLookups = <<>>
       /\ connects = <<>>

\* C11: when the promise of dns.lookup is rejected, the fetch promise is
\* rejected with the resolution failure, no connection has been created, no
\* request has been written, and the lookup was made once only.
C11_LookupFailureRejectsFetch ==
  lookup = "rejected"
    => /\ fetchPromise = [state |-> "rejected", value |-> "ENOTFOUND"]
       /\ connects = <<>>
       /\ written = <<>>
       /\ Len(dnsLookups) = 1

\* A lookup that was made and failed.
C11_Witness ==
  /\ lookup = "rejected"
  /\ Len(dnsLookups) = 1
  /\ fetchPromise.state = "rejected"

\* s is an http URL with a host.
IsHttpUrl(s) ==
  /\ ParseURL(s).ok
  /\ ParseURL(s).hostname # <<>>
  /\ ParseURL(s).protocol = <<"h", "t", "t", "p">>

\* C12: once the TCP connection to the host of an http URL has failed to be
\* established, the fetch promise is rejected with ConnectionFailed.  (No
\* action is enabled after the failure, so a promise pending in that state is
\* pending forever.)
C12_ConnectErrorRejectsFetch ==
  (IsHttpUrl(urlString) /\ uncaught = "connect error")
    => fetchPromise = [state |-> "rejected", value |-> "ConnectionFailed"]

\* C13: once the complete header block of a response without a content-length
\* header has been delivered, the fetch promise is rejected with
\* NoContentLength (the handle does not exist yet, so there is no other promise
\* to reject) and the connection is closed.
C13_NoContentLengthRejects ==
  (/\ IsHttpUrl(urlString)
   /\ pc \in {"reading", "crashed"}
   /\ LacksContentLength(response)
   /\ pos >= TerminatorEnd(response))
    => /\ fetchPromise = [state |-> "rejected", value |-> "NoContentLength"]
       /\ ConnectionClosed

\* C14: a content-length value that is malformed (12abc, empty) or negative
\* (-5) is never taken as a body length, and once the header block has been
\* delivered the fetch promise is rejected with InvalidContentLength.
C14_InvalidContentLengthRejected ==
  (/\ IsHttpUrl(urlString)
   /\ pc \in {"reading", "crashed"}
   /\ DeclaresInvalidLength(response))
    => /\ contentLength = undefined
       /\ pos >= TerminatorEnd(response)
            => fetchPromise = [state |-> "rejected", value |-> "InvalidContentLength"]

\* The connection is open and the program has nothing left to do on it: no
\* end callback is queued and no 'data' can be emitted, because the socket is
\* paused or the peer has sent everything it will send.  Only the caller (by
\* text()) or the peer (by closing) can change such a state.
Quiescent ==
  /\ pc = "reading"
  /\ ~endCbPending
  /\ (paused \/ peerEnded \/ pos = Len(response))

\* C15: on every path the connection fetch opened gets closed, also when the
\* caller never calls text(): whenever the program has nothing left to do on
\* the connection of a well-framed response, it has closed it.
C15_ConnectionEventuallyClosed ==
  (IsHttpUrl(urlString) /\ WellFramed(response) /\ Quiescent) => ConnectionClosed

\* r is a header block followed by exactly the number of bytes it declares
\* (which may be none).
ExactBody(r) == DeclaresLength(r) /\ Len(AfterTerminator(r)) = DeclaredLength(r)

\* C16: the server has sent the header block and exactly content-length body
\* bytes and keeps the connection open; the caller has called text().  Once
\* all the bytes have been handled and nothing is queued, the body-ready
\* callback has been invoked: completion waits for no 'end' or 'close'.
C16_CompletionByByteCount ==
  (/\ IsHttpUrl(urlString)
   /\ ExactBody(response)
   /\ pc = "reading"
   /\ pos = Len(response)
   /\ ~peerEnded
   /\ ~paused
   /\ ~endCbPending
   /\ textPromises # <<>>)
    => onBodyCalls >= 1

\* C17: whatever arrives after the body has reached the declared length is
\* ignored: every value a text() promise is resolved with has exactly
\* content-length characters.
C17_ResolvedBodyHasDeclaredLength ==
  \A i \in DOMAIN textPromises :
    Resolved(i) => StrLength(textPromises[i].value) = contentLength

\* C18: once the N-th byte after the header terminator has been handled, N
\* the declared content length, no step reads from the connection or appends
\* to the body.
C18_NoReadAfterBodyComplete ==
  [][(/\ DeclaresLength(response)
      /\ pos >= TerminatorEnd(response) + DeclaredLength(response))
       => (pos' = pos /\ body' = body)]_vars

\* C19: the body-ready notification is never delivered to nobody.  For a
\* well-framed response: once every byte has been handled, the callback given
\* to connection.end has run and the caller has called text(), a text()
\* promise is resolved, whichever of the callback and text() came first.
C19_BodyReadyReachesText ==
  (/\ IsHttpUrl(urlString)
   /\ WellFramed(response)
   /\ pc = "reading"
   /\ pos = Len(response)
   /\ onBodyCalls >= 1
   /\ ~endCbPending
   /\ textPromises # <<>>)
    => \E i \in DOMAIN textPromises : Resolved(i)

\* The request as it has to be on the wire: the request line, the host header
\* and a blank line, each ended by CR LF.
WireRequest(u) ==
  <<"G", "E", "T", " ">> \o u.pathname \o <<" ", "H", "T", "T", "P", "/", "1", ".", "1">>
    \o <<CR, LF>> \o <<"h", "o", "s", "t", ":", " ">> \o u.hostname \o <<CR, LF, CR, LF>>

\* C20: what fetch writes to the connection of an http URL is exactly the
\* request line for the path, the host header with the hostname of the parsed
\* URL and a blank line, every line ended by CR LF, and nothing else.
C20_RequestBytes ==
  IsHttpUrl(urlString) => \A i \in DOMAIN written : written[i] = WireRequest(url)

\* The port written in the URL string s: the digits after the last colon of
\* its authority, <<>> when there is none.
ExplicitPort(s) ==
  LET a      == SchemeLen(s) + 4
      e      == IndexOfFrom(s, {"/", "?", "#"}, a)
      auth   == SubSeq(s, a, e - 1)
      colons == {j \in DOMAIN auth : auth[j] = ":"}
  IN  IF colons = {} THEN <<>>
      ELSE SubSeq(auth, (CHOOSE j \in colons : \A k \in colons : k <= j) + 1, Len(auth))

\* C21: every connection of a fetch on a URL with a host goes to the port
\* written in the URL when there is one, and to port 80 when there is none.
C21_ConnectPort ==
  (ParseURL(urlString).ok /\ ParseURL(urlString).hostname # <<>>)
    => \A i \in DOMAIN connects :
         connects[i].port = IF ExplicitPort(urlString) = <<>> THEN 80
                            ELSE DigitsToNat(ExplicitPort(urlString))

\* C22: the steps of one fetch happen in the order parse, lookup, connect,
\* write, read, resolve.  A lookup was made only for a parsed URL, a
\* connection only after the lookup resolved, the request was written only on
\* an established connection, data was handled only after the write, and the
\* fetch promise is resolved only by onHeaders; after a step has failed no
\* later step has run.
C22_StepOrder ==
  /\ dnsLookups # <<>> => (ParseURL(urlString).ok /\ url = ParseURL(urlString))
  /\ connects # <<>> => (dnsLookups # <<>> /\ lookup = "resolved")
  /\ written # <<>> => (connects # <<>> /\ uncaught # "connect error")
  /\ (pos > 0 \/ rawHeaders # <<>>) => written # <<>>
  /\ fetchPromise.state = "resolved" => (onHeadersCalls >= 1 /\ pos > 0)
  /\ (pc # "start" /\ ~ParseURL(urlString).ok)
       => (dnsLookups = <<>> /\ connects = <<>> /\ written = <<>>)
  /\ lookup = "rejected" => (connects = <<>> /\ written = <<>> /\ pos = 0)
  /\ uncaught = "connect error"
       => (written = <<>> /\ pos = 0 /\ fetchPromise.state = "pending")

\* A fetch that went through every step: its promise is resolved.
C22_Witness ==
  /\ fetchPromise.state = "resolved"
  /\ Len(dnsLookups) = 1
  /\ Len(connects) = 1
  /\ Len(written) = 1
  /\ onHeadersCalls = 1

\* C23: the handle the fetch promise is resolved with for the scenario
\* response carries the status code 200 and the headers, with content-length
\* 13, besides text.
C23_HandleCarriesStatusAndHeaders ==
  (IsHttpUrl(urlString) /\ response = RespHello /\ fetchPromise.state = "resolved")
    => /\ "text" \in DOMAIN fetchPromise.value
       /\ "status" \in DOMAIN fetchPromise.value
       /\ fetchPromise.value.status = 200
       /\ "headers" \in DOMAIN fetchPromise.value
       /\ ContentLengthValues(RespHello) = <<fetchPromise.value.headers>>

\* C24: nothing is retried: one fetch makes at most one lookup, at most one
\* connection attempt and at most one write of the request, whatever fails.
C24_NoRetry ==
  /\ Len(dnsLookups) <= 1
  /\ Len(connects) <= 1
  /\ Len(written) <= 1

\* A connection attempt that failed, after one lookup and one attempt.
C24_Witness ==
  /\ uncaught = "connect error"
  /\ Len(dnsLookups) = 1
  /\ Len(connects) = 1
  /\ written = <<>>

\* C26: between the call of onHeaders and the first text(), the body stays
\* empty and connection.end() is not called, also when the chunk that ended
\* the headers went on with bytes that follow the terminator.
C26_BodyEmptyBeforeText ==
  (/\ IsHttpUrl(urlString)
   /\ WellFramed(response)
   /\ headersRead
   /\ pos > TerminatorEnd(response)
   /\ textPromises = <<>>)
    => (body = <<>> /\ endCalls = 0)

\* C27: the body length the parser uses is the value of the first header line
\* whose name is content-length; a header line that only contains that text
\* and comes earlier is not taken.
C27_FirstContentLengthHeader ==
  (/\ IsHttpUrl(urlString)
   /\ headersRead
   /\ DeclaresLength(response))
    => contentLength = DeclaredLength(response)

\* The body of r holds a character of more than one byte.
HasMultiByteBody(r) ==
  \E i \in DOMAIN AfterTerminator(r) : AfterTerminator(r)[i] \in Continuation

\* C28: completion counts bytes.  For a well-framed response whose body holds
\* multi-byte characters, however it is chunked, the body has been declared
\* complete (connection.end() called) once all its bytes have been handled.
C28_CompletionCountsBytes ==
  (/\ IsHttpUrl(urlString)
   /\ WellFramed(response)
   /\ HasMultiByteBody(response)
   /\ pc = "reading"
   /\ pos = Len(response))
    => endCalls >= 1

\* C29: on one connection connection.end() is called at most once and the
\* body-ready callback runs at most once, also when the server sends more
\* than it declared.
C29_BodyConsumedOnce == endCalls <= 1 /\ onBodyCalls <= 1

\* The body was completed, its callback has run, and the server has sent
\* more than the declared length since.
C29_Witness ==
  /\ endCalls = 1
  /\ onBodyCalls = 1
  /\ headersRead
  /\ StrLength(body) > contentLength

\* C30: the parser only moves forward: once headersRead is true, no step
\* makes it false or changes rawHeaders or contentLength; and no step puts
\* into rawHeaders what follows the terminator.
C30_HeadersFrozenOnceRead ==
  [][/\ headersRead => /\ headersRead'
                       /\ rawHeaders' = rawHeaders
                       /\ contentLength' = contentLength
     /\ TerminatorEnd(response') > 0 => Len(rawHeaders') < TerminatorEnd(response')]_vars

\* A 'data' event was handled after the one that ended the headers.
C30_Witness ==
  /\ headersRead
  /\ resumeCalls >= 1
  /\ pos > headersAt
  /\ body # <<>>
  /\ Len(rawHeaders) < headersAt

\* What the listener of a call has taken in so far: the header buffer, then
\* the CR that made the marker, then the body.
Consumed(st) ==
  IF st.headersRead THEN st.rawHeaders \o <<CR>> \o st.body ELSE st.rawHeaders

\* The closure of call i holds what its own connection delivered and nothing
\* else: its buffers are the bytes of its own response up to its own
\* position, its contentLength is unset or the one its own response declares,
\* its callbacks are its own (onBody is one of its own text() promises), and
\* a resolved text() holds a part of its own body buffer.
OwnState(i) ==
  /\ Consumed(fetches[i].st) = SubSeq(fetches[i].response, 1, fetches[i].st.at)
  /\ fetches[i].st.contentLength \in {undefined, DeclaredLength(fetches[i].response)}
  /\ fetches[i].onBody \in 0..Len(fetches[i].textPromises)
  /\ \A j \in DOMAIN fetches[i].textPromises :
       fetches[i].textPromises[j].state = "resolved"
         => /\ IsPrefix(fetches[i].textPromises[j].value, fetches[i].st.body)
            /\ fetches[i].textPromises[j].value # <<>>

WithoutQueryAndFragment(s) == SubSeq(s, 1, IndexOfFrom(s, {"?", "#"}, 1) - 1)

\* The first line of what was written.
RequestLine(w) == SubSeq(w, 1, IndexOfFrom(w, {CR, LF}, 1) - 1)

\* C31: the request target is the pathname alone.  The request line is GET,
\* the pathname, HTTP/1.1; no character of the query string or fragment is
\* written; and the bytes written are those written for the same URL without
\* its query string and fragment.
C31_TargetIsPathname ==
  \A i \in DOMAIN written :
    /\ RequestLine(written[i])
         = <<"G", "E", "T", " ">> \o ParseURL(WithoutQueryAndFragment(urlString)).pathname
             \o <<" ", "H", "T", "T", "P", "/", "1", ".", "1">>
    /\ Range(written[i]) \cap {"?", "#", "="} = {}
    /\ written[i] = Request(ParseURL(WithoutQueryAndFragment(urlString)))

\* The request for http://example.com:8080/a?foo=bar#hash was written, with
\* the request line GET /a HTTP/1.1.
C31_Witness ==
  /\ urlString = UrlFull
  /\ written # <<>>
  /\ RequestLine(written[1])
       = <<"G", "E", "T", " ", "/", "a", " ", "H", "T", "T", "P", "/", "1", ".", "1">>

(***************************************************************************)
(* Claims about importCatalogue.                                           *)
(***************************************************************************)
PendingImports(from) ==
  {i \in DOMAIN imports : imports[i].state = "pending" /\ imports[i].from = from}

\* C32: in the first version the returned promise can resolve while an
\* api.import(batch) started by a 'product' handler is still pending: the
\* 'end' handler waits for its own import only, so once the promise is
\* resolved every import still pending is one a 'product' handler started
\* (the witness is a state where there is one).
C32_ResolvesBeforeHandlerImports ==
  (version = "first" /\ importPromise = "resolved")
    => /\ PendingImports("end") = {}
       /\ endHandler = "done"

C32_Witness ==
  /\ version = "first"
  /\ importPromise = "resolved"
  /\ PendingImports("product") # {}

\* C33: with pendingHandlers and Promise.all in the 'end' handler, the
\* returned promise is resolved only when every api.import call of the run,
\* the final partial batch included, has completed, in whatever order the
\* imports complete.
C33_ResolvesAfterEveryImport ==
  (version \in {"pendingHandlers", "pause"} /\ importPromise = "resolved")
    => \A i \in DOMAIN imports : imports[i].state = "done"

C33_Witness ==
  /\ version = "pendingHandlers"
  /\ importPromise = "resolved"
  /\ Len(imports) = 3
  /\ imports[3].from = "end"
  /\ \A i \in DOMAIN imports : imports[i].state = "done"

RECURSIVE Batches(_)
\* The products handed to api.import so far, in the order of the calls.
Batches(imps) ==
  IF imps = <<>> THEN <<>> ELSE Batches(SubSeq(imps, 1, Len(imps) - 1)) \o imps[Len(imps)].batch

\* The 'end' handler has called api.import(products).
FinalImportStarted == \E i \in DOMAIN imports : imports[i].from = "end"

\* C34: every product emitted is passed to api.import exactly once: the
\* batches sent so far followed by the products still waiting in memory are
\* the products emitted so far, each once and in order; once the promise is
\* resolved every product of the stream is in exactly one batch, and the
\* final import holds exactly the products no handler batch had taken.
C34_EachProductImportedOnce ==
  /\ Batches(imports) \o (IF FinalImportStarted THEN <<>> ELSE products)
       = [p \in 1..parsed |-> p]
  /\ importPromise = "resolved" => Batches(imports) = [p \in 1..xmlProducts |-> p]
  /\ \A i \in DOMAIN imports :
       imports[i].from = "end"
         => /\ i = Len(imports)
            /\ imports[i].batch = products
            /\ Batches(SubSeq(imports, 1, i - 1)) \o imports[i].batch
                 = [p \in 1..xmlProducts |-> p]

C34_Witness ==
  /\ version \in Versions
  /\ importPromise = "resolved"
  /\ Len(imports) = 3
  /\ imports[1].batch = <<1, 2>>
  /\ imports[2].batch = <<3, 4>>
  /\ imports[3].batch = <<5>>

\* C35: between handler calls products holds fewer than THRESHOLD products
\* (so never more than THRESHOLD), also after each product of a chunk that
\* holds several; every batch a 'product' handler sends has exactly
\* THRESHOLD products, and only the final batch, sent by 'end', is smaller.
C35_BatchesOfThreshold ==
  /\ Len(products) < THRESHOLD
  /\ \A k \in 1..(xmlProducts - parsed) :
       Len(EmitProducts(ImportState, parsed + 1, k).products) < THRESHOLD
  /\ \A i \in DOMAIN imports :
       /\ imports[i].from = "product" => Len(imports[i].batch) = THRESHOLD
       /\ imports[i].from = "end"
            => /\ Len(imports[i].batch) \in 1..(THRESHOLD - 1)
               /\ i = Len(imports)

C35_Witness ==
  /\ Len(imports) = 3
  /\ imports[1].from = "product"
  /\ imports[2].from = "product"
  /\ imports[3].from = "end"
  /\ Len(imports[3].batch) < THRESHOLD
  /\ Len(products) = THRESHOLD - 1

\* C36: in the listing with pause and resume, the stream is paused for as
\* long as an api.import(batch) of a 'product' handler is in flight: in no
\* state is the stream flowing while such an import is pending.
C36_PausedWhileImporting ==
  (version = "pause" /\ PendingImports("product") # {}) => streamPaused

(***************************************************************************)
(* Claim about the tag filter of the home page.                            *)
(***************************************************************************)
\* The 'tag' parameter of the page URL.
TagParameter == Get(SearchParams(ParseURL(href)), <<"t", "a", "g">>)

\* The listed posts one of whose pills is the tag.
Carriers(tag) == {i \in DOMAIN posts : \E j \in DOMAIN posts[i] : posts[i][j] = tag}

\* C37: once the script has run, if the page URL has a 'tag' parameter and
\* some listed post carries that tag, the hidden posts are exactly those
\* whose pills do not include it; if no listed post carries it, or the URL
\* has no 'tag' parameter, no post is hidden.
C37_TagFilter ==
  scriptDone =>
    IF ~TagParameter.null /\ Carriers(TagParameter.value) # {}
      THEN \A i \in DOMAIN posts :
             display[i] = IF i \in Carriers(TagParameter.value) THEN "" ELSE "none"
      ELSE \A i \in DOMAIN posts : display[i] = ""

C37_Witness ==
  /\ scriptDone
  /\ TagParameter.value = Js
  /\ posts = <<<<Js, Go>>, <<Go>>, <<>>>>
  /\ display = <<"", "none", "none">>

=============================================================================
